---- MODULE Spec2Model ----
(***************************************************************************)
(* User-management server actions of app/actions/user-management-actions.ts *)
(* modelled as a state machine.  One invocation of an action is a            *)
(* sequence of steps, one per `await` of the source: the invocation is      *)
(* suspended at the awaited call (pc names it, inflight holds it) and the   *)
(* next step delivers the call's outcome and runs the code up to the next   *)
(* await or to the return.  The identity provider and the profiles table    *)
(* are the external state the calls act on.                                 *)
(***************************************************************************)
EXTENDS Integers, Sequences, FiniteSets, TLC

(* ------------------------------ bounds ---------------------------------- *)
NumUsers == 2
MaxInvocations == 1
MaxOtherWrites == 1

UserId(i) == "u" \o ToString(i)
EmailOf(i) == "user" \o ToString(i) \o "@example.com"
Ids == {UserId(i) : i \in 1..NumUsers}
Emails == {EmailOf(i) : i \in 1..NumUsers}
Roles == {"client", "admin"}
NoRole == "none"
ServiceErrors == {"User not found", "Rate limit exceeded"}
Exceptions == {"fetch failed"}
\* process.env.NEXT_PUBLIC_SITE_URL ("" when unset), read when a redirect is built
SiteUrls == {"", "https://cms.example.com"}

VARIABLES
    identities,     \* identity provider: id -> [email, role] (role = app_metadata.role)
    profileTable,   \* the profiles table: id -> [email, role]
    op,             \* the action being invoked
    args,           \* its arguments
    pc,             \* the await the invocation is suspended at, "idle" or "done"
    inflight,       \* calls issued and not yet completed
    calls,          \* calls issued by this invocation, in order
    responses,      \* outcomes delivered to this invocation, in order
    settled,        \* state of the returned promise: pending, fulfilled, rejected
    result,         \* the ActionResult the promise was fulfilled with
    profiles,       \* syncAllUsersAppMetadata: rows read
    idx,            \* syncAllUsersAppMetadata: position of the for-of loop
    successCount,
    errorCount,
    errors,
    invocations,    \* number of invocations started
    otherWrites     \* writes by other processes during this invocation

store == <<identities, profileTable>>
locals == <<profiles, idx, successCount, errorCount, errors>>
vars == <<identities, profileTable, op, args, pc, inflight, calls,
          responses, settled, result, profiles, idx, successCount, errorCount,
          errors, invocations, otherWrites>>

(* ------------------------- ActionResult --------------------------------- *)
NoResult == [message |-> ""]
Success(message) == [success |-> TRUE, message |-> message]
Failure(message, error) == [success |-> FALSE, message |-> message, error |-> error]

(* `${process.env.NEXT_PUBLIC_SITE_URL || 'http://localhost:3000'}<path>` *)
RedirectUrl(env, path) == (IF env = "" THEN "http://localhost:3000" ELSE env) \o path

(* ----------------- outcomes of an awaited call -------------------------- *)
\* A call resolves without an error, resolves with { error }, or throws.  What
\* is thrown is an Error carrying a message; a call that reports an error or
\* throws has had no effect on the service.
Ok == [kind |-> "ok"]
OkData(rows) == [kind |-> "ok", data |-> rows]
Err(message) == [kind |-> "error", message |-> message]
Thrown(message) == [kind |-> "throw", message |-> message]
Faults == {Err(e) : e \in ServiceErrors} \cup {Thrown(x) : x \in Exceptions}

(* ------------------------ identity provider ----------------------------- *)
EmailTaken(email) == \E u \in DOMAIN identities : identities[u].email = email
FreshIds == Ids \ (DOMAIN identities \cup DOMAIN profileTable)
NewId == CHOOSE u \in FreshIds : TRUE
WithIdentity(u, identity) ==
    [v \in DOMAIN identities \cup {u} |-> IF v = u THEN identity ELSE identities[v]]

\* the call can complete without an error
Accepts(req) ==
    CASE req.api = "createClient" -> TRUE
      [] req.api = "auth.admin.updateUserById" ->
            /\ req.id \in DOMAIN identities
            /\ "email" \in DOMAIN req.attributes =>
                  \A u \in DOMAIN identities \ {req.id} :
                      identities[u].email # req.attributes.email
      [] req.api = "auth.resetPasswordForEmail" -> TRUE
      [] req.api = "auth.signInWithOtp" ->
            \/ EmailTaken(req.email)
            \/ req.options.shouldCreateUser /\ FreshIds # {}
      [] req.api = "auth.admin.inviteUserByEmail" ->
            ~EmailTaken(req.email) /\ FreshIds # {}
      [] req.api = "auth.admin.deleteUser" -> req.id \in DOMAIN identities
      [] req.api = "profiles.update" -> TRUE
      [] req.api = "profiles.select" -> TRUE

\* the identities after the call completed without an error
IdentitiesAfter(req) ==
    CASE req.api = "auth.admin.updateUserById" ->
            IF "email" \in DOMAIN req.attributes
            THEN [identities EXCEPT ![req.id].email = req.attributes.email]
            ELSE [identities EXCEPT ![req.id].role = req.attributes.app_metadata.role]
      [] req.api = "auth.signInWithOtp" ->
            IF EmailTaken(req.email) THEN identities
            ELSE WithIdentity(NewId, [email |-> req.email, role |-> NoRole])
      [] req.api = "auth.admin.inviteUserByEmail" ->
            WithIdentity(NewId, [email |-> req.email, role |-> req.options.app_metadata.role])
      [] req.api = "auth.admin.deleteUser" ->
            [v \in DOMAIN identities \ {req.id} |-> identities[v]]
      [] OTHER -> identities

\* the profiles table after the call completed without an error
ProfileTableAfter(req) ==
    IF req.api = "profiles.update" /\ req.eq \in DOMAIN profileTable
    THEN [profileTable EXCEPT ![req.eq].email = req.values.email]
    ELSE profileTable

\* the rows a select can return: every row once, in any order
RowOrders ==
    {rows \in [1..Cardinality(DOMAIN profileTable) -> [id : DOMAIN profileTable]] :
        \A i, j \in DOMAIN rows : i # j => rows[i].id # rows[j].id}
SelectResults ==
    {OkData([i \in DOMAIN rows |->
                [id |-> rows[i].id, role |-> profileTable[rows[i].id].role]]) :
        rows \in RowOrders}
        \cup (IF DOMAIN profileTable = {} THEN {Ok} ELSE {})

\* the outcomes the awaited call can have
Outcomes(req) ==
    IF req.api = "createClient" THEN {Ok} \cup {Thrown(x) : x \in Exceptions}
    ELSE Faults \cup
         (IF ~Accepts(req) THEN {}
          ELSE IF req.api = "profiles.select" THEN SelectResults ELSE {Ok})

(* --------------------- one invocation, step by step --------------------- *)
Range(seq) == {seq[i] : i \in DOMAIN seq}
Fulfilled(value) == [settled |-> "fulfilled", value |-> value]
Rejected(reason) == [settled |-> "rejected", value |-> [message |-> reason]]

\* createClient(true): the service-role client
CreateClientCall == [api |-> "createClient", serviceRole |-> TRUE]

\* a call of the action: try { const supabase = await createClient(true)
Invoke(action, arguments) ==
    /\ pc \in {"idle", "done"}
    /\ invocations < MaxInvocations
    /\ invocations' = invocations + 1
    /\ op' = action
    /\ args' = arguments
    /\ pc' = "createClient"
    /\ inflight' = {CreateClientCall}
    /\ calls' = <<CreateClientCall>>
    /\ responses' = <<>>
    /\ settled' = "pending"
    /\ result' = NoResult
    /\ profiles' = <<>>
    /\ idx' = 0
    /\ successCount' = 0
    /\ errorCount' = 0
    /\ errors' = <<>>
    /\ otherWrites' = 0
    /\ UNCHANGED <<identities, profileTable>>

\* the awaited call req completes with outcome r
Deliver(req, r) ==
    /\ req \in inflight
    /\ r \in Outcomes(req)
    /\ responses' = Append(responses, r)
    /\ identities' = IF r.kind = "ok" THEN IdentitiesAfter(req) ELSE identities
    /\ profileTable' = IF r.kind = "ok" THEN ProfileTableAfter(req) ELSE profileTable
    /\ UNCHANGED <<op, args, invocations, otherWrites>>

\* after req completed the code issues reqs and suspends at label
Await(req, label, reqs) ==
    /\ pc' = label
    /\ inflight' = (inflight \ {req}) \cup Range(reqs)
    /\ calls' = calls \o reqs
    /\ UNCHANGED <<settled, result>>

\* after req completed the code returns (or throws) outcome
Settle(req, outcome) ==
    /\ pc' = "done"
    /\ inflight' = inflight \ {req}
    /\ settled' = outcome.settled
    /\ result' = outcome.value
    /\ UNCHANGED calls

(* --------------------------- changeUserEmail ---------------------------- *)
changeUserEmailUpdate(userId, newEmail) ==
    [api |-> "auth.admin.updateUserById", id |-> userId,
     attributes |-> [email |-> newEmail]]
changeUserEmailProfileUpdate(userId, newEmail) ==
    [api |-> "profiles.update", values |-> [email |-> newEmail], eq |-> userId]
changeUserEmailError(error) ==
    Fulfilled(Failure("Failed to change user email", error.message))
changeUserEmailSuccess(newEmail) ==
    Fulfilled(Success("Email successfully changed to " \o newEmail
                      \o ". User will receive a confirmation email."))
\* variant: the catch block rethrows
changeUserEmailRethrow(error) == Rejected(error.message)
changeUserEmailCatch(error) ==
    Fulfilled(Failure("An unexpected error occurred while changing the email",
                      error.message))

changeUserEmail ==
    \/ \E userId \in Ids, newEmail \in Emails :
          Invoke("changeUserEmail", [userId |-> userId, newEmail |-> newEmail])
    \/ /\ op = "changeUserEmail" /\ pc = "createClient"
       /\ \E r \in Outcomes(CreateClientCall) :
            /\ Deliver(CreateClientCall, r)
            /\ IF r.kind = "throw"
               THEN Settle(CreateClientCall, changeUserEmailCatch(r))
               ELSE Await(CreateClientCall, "updateUserById",
                          <<changeUserEmailUpdate(args.userId, args.newEmail)>>)
       /\ UNCHANGED locals
    \/ /\ op = "changeUserEmail" /\ pc = "updateUserById"
       /\ LET req == changeUserEmailUpdate(args.userId, args.newEmail) IN
          \E r \in Outcomes(req) :
            /\ Deliver(req, r)
            /\ CASE r.kind = "throw" -> Settle(req, changeUserEmailCatch(r))
                 [] r.kind = "error" -> Settle(req, changeUserEmailError(r))
                 [] r.kind = "ok" ->
                      Await(req, "profiles.update",
                            <<changeUserEmailProfileUpdate(args.userId, args.newEmail)>>)
       /\ UNCHANGED locals
    \/ /\ op = "changeUserEmail" /\ pc = "profiles.update"
       /\ LET req == changeUserEmailProfileUpdate(args.userId, args.newEmail) IN
          \E profileResponse \in Outcomes(req) :
            /\ Deliver(req, profileResponse)
            /\ IF profileResponse.kind = "throw"
               THEN Settle(req, changeUserEmailCatch(profileResponse))
               ELSE Settle(req, changeUserEmailSuccess(args.newEmail))
       /\ UNCHANGED locals

(* ------------------ sendPasswordReset ----------------- *)
sendPasswordResetRequest(email, env) ==
    [api |-> "auth.resetPasswordForEmail", email |-> email,
     options |-> [redirectTo |-> RedirectUrl(env, "/auth/reset-password")]]
sendPasswordResetError(error) ==
    Fulfilled(Failure("Failed to send password reset email", error.message))
sendPasswordResetSuccess(email) ==
    Fulfilled(Success("Password reset link has been sent to " \o email))
sendPasswordResetCatch(error) ==
    Fulfilled(Failure("An unexpected error occurred while sending password reset", error.message))

sendPasswordReset ==
    \/ \E email \in Emails :
          Invoke("sendPasswordReset", [email |-> email])
    \/ /\ op = "sendPasswordReset" /\ pc = "createClient"
       /\ \E r \in Outcomes(CreateClientCall) :
            /\ Deliver(CreateClientCall, r)
            /\ IF r.kind = "throw"
               THEN Settle(CreateClientCall, sendPasswordResetCatch(r))
               ELSE \E env \in SiteUrls :
                      Await(CreateClientCall, "resetPasswordForEmail", <<sendPasswordResetRequest(args.email, env)>>)
       /\ UNCHANGED locals
    \/ /\ op = "sendPasswordReset" /\ pc = "resetPasswordForEmail"
       /\ \E req \in inflight, r \in Faults \cup {Ok} :
            /\ Deliver(req, r)
            /\ CASE r.kind = "throw" -> Settle(req, sendPasswordResetCatch(r))
                 [] r.kind = "error" -> Settle(req, sendPasswordResetError(r))
                 [] r.kind = "ok" -> Settle(req, sendPasswordResetSuccess(args.email))
       /\ UNCHANGED locals

(* --------------- requestReauthentication -------------- *)
\* variant: the reauthentication request may create the user
requestReauthenticationRequestCreating(email, env) ==
    [api |-> "auth.signInWithOtp", email |-> email,
     options |-> [shouldCreateUser |-> TRUE,
                  emailRedirectTo |-> RedirectUrl(env, "/dashboard")]]
requestReauthenticationRequest(email, env) ==
    [api |-> "auth.signInWithOtp", email |-> email,
     options |-> [shouldCreateUser |-> FALSE,
                  emailRedirectTo |-> RedirectUrl(env, "/dashboard")]]
requestReauthenticationError(error) ==
    Fulfilled(Failure("Failed to send reauthentication link", error.message))
requestReauthenticationSuccess(email) ==
    Fulfilled(Success("Reauthentication link has been sent to " \o email))
requestReauthenticationCatch(error) ==
    Fulfilled(Failure("An unexpected error occurred while sending reauthentication request", error.message))

requestReauthentication ==
    \/ \E email \in Emails :
          Invoke("requestReauthentication", [email |-> email])
    \/ /\ op = "requestReauthentication" /\ pc = "createClient"
       /\ \E r \in Outcomes(CreateClientCall) :
            /\ Deliver(CreateClientCall, r)
            /\ IF r.kind = "throw"
               THEN Settle(CreateClientCall, requestReauthenticationCatch(r))
               ELSE \E env \in SiteUrls :
                      Await(CreateClientCall, "signInWithOtp", <<requestReauthenticationRequest(args.email, env)>>)
       /\ UNCHANGED locals
    \/ /\ op = "requestReauthentication" /\ pc = "signInWithOtp"
       /\ \E req \in inflight, r \in Faults \cup {Ok} :
            /\ Deliver(req, r)
            /\ CASE r.kind = "throw" -> Settle(req, requestReauthenticationCatch(r))
                 [] r.kind = "error" -> Settle(req, requestReauthenticationError(r))
                 [] r.kind = "ok" -> Settle(req, requestReauthenticationSuccess(args.email))
       /\ UNCHANGED locals

(* --------------------- inviteUser --------------------- *)
\* role: 'client' | 'admin' = 'client'
Undefined == "<undefined>"
inviteUserRole(role) == IF role = Undefined THEN "client" ELSE role
inviteUserRequest(email, role, env) ==
    [api |-> "auth.admin.inviteUserByEmail", email |-> email,
     options |-> [data |-> [role |-> role],
                  app_metadata |-> [role |-> role],
                  redirectTo |-> RedirectUrl(env, "/auth/callback")]]
inviteUserError(error) ==
    Fulfilled(Failure("Failed to send invitation", error.message))
\* variant: the confirmation does not interpolate the email
inviteUserSuccessNoEmail(email) == Fulfilled(Success("Invitation sent successfully"))
inviteUserSuccess(email) ==
    Fulfilled(Success("Invitation sent successfully to " \o email))
inviteUserCatch(error) ==
    Fulfilled(Failure("An unexpected error occurred while sending invitation", error.message))

inviteUser ==
    \/ \E email \in Emails, role \in Roles \cup {Undefined} :
          Invoke("inviteUser", [email |-> email, role |-> inviteUserRole(role)])
    \/ /\ op = "inviteUser" /\ pc = "createClient"
       /\ \E r \in Outcomes(CreateClientCall) :
            /\ Deliver(CreateClientCall, r)
            /\ IF r.kind = "throw"
               THEN Settle(CreateClientCall, inviteUserCatch(r))
               ELSE \E env \in SiteUrls :
                      Await(CreateClientCall, "inviteUserByEmail", <<inviteUserRequest(args.email, args.role, env)>>)
       /\ UNCHANGED locals
    \/ /\ op = "inviteUser" /\ pc = "inviteUserByEmail"
       /\ \E req \in inflight, r \in Faults \cup {Ok} :
            /\ Deliver(req, r)
            /\ CASE r.kind = "throw" -> Settle(req, inviteUserCatch(r))
                 [] r.kind = "error" -> Settle(req, inviteUserError(r))
                 [] r.kind = "ok" -> Settle(req, inviteUserSuccess(args.email))
       /\ UNCHANGED locals

(* -------------------- sendMagicLink ------------------- *)
sendMagicLinkRequest(email, env) ==
    [api |-> "auth.signInWithOtp", email |-> email,
     options |-> [shouldCreateUser |-> TRUE,
                  emailRedirectTo |-> RedirectUrl(env, "/dashboard")]]
sendMagicLinkError(error) ==
    Fulfilled(Failure("Failed to send magic link", error.message))
sendMagicLinkSuccess(email) ==
    Fulfilled(Success("Magic link has been sent to " \o email))
sendMagicLinkCatch(error) ==
    Fulfilled(Failure("An unexpected error occurred while sending magic link", error.message))

sendMagicLink ==
    \/ \E email \in Emails :
          Invoke("sendMagicLink", [email |-> email])
    \/ /\ op = "sendMagicLink" /\ pc = "createClient"
       /\ \E r \in Outcomes(CreateClientCall) :
            /\ Deliver(CreateClientCall, r)
            /\ IF r.kind = "throw"
               THEN Settle(CreateClientCall, sendMagicLinkCatch(r))
               ELSE \E env \in SiteUrls :
                      Await(CreateClientCall, "signInWithOtp", <<sendMagicLinkRequest(args.email, env)>>)
       /\ UNCHANGED locals
    \/ /\ op = "sendMagicLink" /\ pc = "signInWithOtp"
       /\ \E req \in inflight, r \in Faults \cup {Ok} :
            /\ Deliver(req, r)
            /\ CASE r.kind = "throw" -> Settle(req, sendMagicLinkCatch(r))
                 [] r.kind = "error" -> Settle(req, sendMagicLinkError(r))
                 [] r.kind = "ok" -> Settle(req, sendMagicLinkSuccess(args.email))
       /\ UNCHANGED locals

(* --------------------- deleteUser --------------------- *)
deleteUserRequest(userId) ==
    [api |-> "auth.admin.deleteUser", id |-> userId]
\* variant: the error text is left out of the result
deleteUserErrorDropped(error) ==
    Fulfilled([success |-> FALSE, message |-> "Failed to delete user account"])
deleteUserError(error) ==
    Fulfilled(Failure("Failed to delete user account", error.message))
deleteUserSuccess ==
    Fulfilled(Success("User account has been successfully deleted"))
deleteUserCatch(error) ==
    Fulfilled(Failure("An unexpected error occurred while deleting user", error.message))

deleteUser ==
    \/ \E userId \in Ids :
          Invoke("deleteUser", [userId |-> userId])
    \/ /\ op = "deleteUser" /\ pc = "createClient"
       /\ \E r \in Outcomes(CreateClientCall) :
            /\ Deliver(CreateClientCall, r)
            /\ IF r.kind = "throw"
               THEN Settle(CreateClientCall, deleteUserCatch(r))
               ELSE Await(CreateClientCall, "deleteUser", <<deleteUserRequest(args.userId)>>)
       /\ UNCHANGED locals
    \/ /\ op = "deleteUser" /\ pc = "deleteUser"
       /\ LET req == deleteUserRequest(args.userId) IN
          \E r \in Outcomes(req) :
            /\ Deliver(req, r)
            /\ CASE r.kind = "throw" -> Settle(req, deleteUserCatch(r))
                 [] r.kind = "error" -> Settle(req, deleteUserError(r))
                 [] r.kind = "ok" -> Settle(req, deleteUserSuccess)
       /\ UNCHANGED locals

(* ---------------- updateUserAppMetadata --------------- *)
updateUserAppMetadataRequest(userId, role) ==
    [api |-> "auth.admin.updateUserById", id |-> userId,
     attributes |-> [app_metadata |-> [role |-> role]]]
updateUserAppMetadataError(error) ==
    Fulfilled(Failure("Failed to update user app_metadata", error.message))
updateUserAppMetadataSuccess(role) ==
    Fulfilled(Success("User app_metadata successfully updated with role: " \o role))
updateUserAppMetadataCatch(error) ==
    Fulfilled(Failure("An unexpected error occurred while updating user app_metadata", error.message))

updateUserAppMetadata ==
    \/ \E userId \in Ids, role \in Roles :
          Invoke("updateUserAppMetadata", [userId |-> userId, role |-> role])
    \/ /\ op = "updateUserAppMetadata" /\ pc = "createClient"
       /\ \E r \in Outcomes(CreateClientCall) :
            /\ Deliver(CreateClientCall, r)
            /\ IF r.kind = "throw"
               THEN Settle(CreateClientCall, updateUserAppMetadataCatch(r))
               ELSE Await(CreateClientCall, "updateUserById", <<updateUserAppMetadataRequest(args.userId, args.role)>>)
       /\ UNCHANGED locals
    \/ /\ op = "updateUserAppMetadata" /\ pc = "updateUserById"
       /\ LET req == updateUserAppMetadataRequest(args.userId, args.role) IN
          \E r \in Outcomes(req) :
            /\ Deliver(req, r)
            /\ CASE r.kind = "throw" -> Settle(req, updateUserAppMetadataCatch(r))
                 [] r.kind = "error" -> Settle(req, updateUserAppMetadataError(r))
                 [] r.kind = "ok" -> Settle(req, updateUserAppMetadataSuccess(args.role))
       /\ UNCHANGED locals

(* ---------------------- syncAllUsersAppMetadata ------------------------ *)
syncAllUsersAppMetadataSelect == [api |-> "profiles.select", columns |-> "id, role"]
\* variant: a failed read is treated as an empty table
syncAllUsersAppMetadataFetchErrorIgnored(profilesError) ==
    Fulfilled(Success("No profiles found to sync"))
syncAllUsersAppMetadataFetchError(profilesError) ==
    Fulfilled(Failure("Failed to fetch profiles", profilesError.message))
\* !profiles || profiles.length === 0
syncAllUsersAppMetadataEmpty(response) ==
    "data" \notin DOMAIN response \/ Len(response.data) = 0
\* variant: an empty table is reported as a failure
syncAllUsersAppMetadataNoneIsError ==
    Fulfilled(Failure("No profiles found to sync", "No profiles found to sync"))
syncAllUsersAppMetadataNone ==
    Fulfilled(Success("No profiles found to sync"))
\* variant: the role written is not the profile's
syncAllUsersAppMetadataUpdateClient(profile) ==
    [api |-> "auth.admin.updateUserById", id |-> profile.id,
     attributes |-> [app_metadata |-> [role |-> "client"]]]
syncAllUsersAppMetadataUpdate(profile) ==
    [api |-> "auth.admin.updateUserById", id |-> profile.id,
     attributes |-> [app_metadata |-> [role |-> profile.role]]]
\* variant: all updates are issued at once, not awaited one by one
syncAllUsersAppMetadataIssueAll(rows, i) ==
    IF i = 1
    THEN [k \in DOMAIN rows |->
            [api |-> "auth.admin.updateUserById", id |-> rows[k].id,
             attributes |-> [app_metadata |-> [role |-> rows[k].role]]]]
    ELSE <<>>
\* the calls issued when the for-of loop reaches position i of rows
syncAllUsersAppMetadataIssue(rows, i) ==
    <<syncAllUsersAppMetadataUpdate(rows[i])>>
\* variant: a thrown update is not counted
syncAllUsersAppMetadataTallyUncounted(counts, profile, r) ==
    CASE r.kind = "error" ->
            [counts EXCEPT !.errorCount = @ + 1,
                           !.errors = Append(@, "Error updating user " \o profile.id
                                                \o ": " \o r.message)]
      [] r.kind = "throw" -> counts
      [] r.kind = "ok" -> [counts EXCEPT !.successCount = @ + 1]
\* the body of the loop after the awaited update of profile completed with r
syncAllUsersAppMetadataTally(counts, profile, r) ==
    CASE r.kind = "error" ->
            [counts EXCEPT !.errorCount = @ + 1,
                           !.errors = Append(@, "Error updating user " \o profile.id
                                                \o ": " \o r.message)]
      [] r.kind = "throw" ->
            [counts EXCEPT !.errorCount = @ + 1,
                           !.errors = Append(@, "Exception updating user " \o profile.id
                                                \o ": " \o r.message)]
      [] r.kind = "ok" -> [counts EXCEPT !.successCount = @ + 1]
syncAllUsersAppMetadataSummary(succeeded, failed) ==
    Fulfilled(Success("Synced app_metadata for " \o ToString(succeeded) \o " users. "
                      \o ToString(failed) \o " errors."))
syncAllUsersAppMetadataCatch(error) ==
    Fulfilled(Failure("An unexpected error occurred while syncing user app_metadata",
                      error.message))

syncAllUsersAppMetadata ==
    \/ Invoke("syncAllUsersAppMetadata", [none |-> TRUE])
    \/ /\ op = "syncAllUsersAppMetadata" /\ pc = "createClient"
       /\ \E r \in Outcomes(CreateClientCall) :
            /\ Deliver(CreateClientCall, r)
            /\ IF r.kind = "throw"
               THEN Settle(CreateClientCall, syncAllUsersAppMetadataCatch(r))
               ELSE Await(CreateClientCall, "select", <<syncAllUsersAppMetadataSelect>>)
       /\ UNCHANGED locals
    \/ /\ op = "syncAllUsersAppMetadata" /\ pc = "select"
       /\ LET req == syncAllUsersAppMetadataSelect IN
          \E r \in Outcomes(req) :
            /\ Deliver(req, r)
            /\ CASE r.kind = "throw" ->
                      Settle(req, syncAllUsersAppMetadataCatch(r)) /\ UNCHANGED locals
                 [] r.kind = "error" ->
                      Settle(req, syncAllUsersAppMetadataFetchError(r)) /\ UNCHANGED locals
                 [] r.kind = "ok" /\ syncAllUsersAppMetadataEmpty(r) ->
                      Settle(req, syncAllUsersAppMetadataNone) /\ UNCHANGED locals
                 [] r.kind = "ok" /\ ~syncAllUsersAppMetadataEmpty(r) ->
                      /\ profiles' = r.data
                      /\ idx' = 1
                      /\ Await(req, "updateUserById", syncAllUsersAppMetadataIssue(r.data, 1))
                      /\ UNCHANGED <<successCount, errorCount, errors>>
    \/ /\ op = "syncAllUsersAppMetadata" /\ pc = "updateUserById"
       /\ LET profile == profiles[idx]
              req == syncAllUsersAppMetadataUpdate(profile) IN
          \E r \in Outcomes(req) :
            LET counts == syncAllUsersAppMetadataTally(
                              [successCount |-> successCount, errorCount |-> errorCount,
                               errors |-> errors], profile, r) IN
            /\ Deliver(req, r)
            /\ successCount' = counts.successCount
            /\ errorCount' = counts.errorCount
            /\ errors' = counts.errors
            /\ IF idx < Len(profiles)
               THEN /\ idx' = idx + 1
                    /\ Await(req, "updateUserById",
                             syncAllUsersAppMetadataIssue(profiles, idx + 1))
               ELSE /\ idx' = idx
                    /\ Settle(req, syncAllUsersAppMetadataSummary(counts.successCount,
                                                                  counts.errorCount))
       /\ UNCHANGED profiles

(* ------------- writers outside this layer (role drift) ------------------ *)
OtherWriter ==
    /\ op = "syncAllUsersAppMetadata"
    /\ pc \notin {"idle", "done"}
    /\ otherWrites < MaxOtherWrites
    /\ otherWrites' = otherWrites + 1
    /\ \/ /\ \E u \in DOMAIN profileTable :
               \E role \in Roles \ {profileTable[u].role} :
                  profileTable' = [profileTable EXCEPT ![u].role = role]
          /\ UNCHANGED identities
       \/ /\ \E u \in DOMAIN identities :
               \E role \in Roles \ {identities[u].role} :
                  identities' = [identities EXCEPT ![u].role = role]
          /\ UNCHANGED profileTable
    /\ UNCHANGED <<op, args, pc, inflight, calls, responses, settled, result,
                   locals, invocations>>

(* ------------------------------ system ---------------------------------- *)
HomeEmail(u) == CHOOSE e \in Emails : \E i \in 1..NumUsers : u = UserId(i) /\ e = EmailOf(i)

Init ==
    /\ \E users \in SUBSET Ids :
         /\ identities \in {f \in [users -> [email : Emails, role : Roles \cup {NoRole}]] :
                               \A u \in users : f[u].email = HomeEmail(u)}
         /\ profileTable \in {f \in [users -> [email : Emails, role : Roles]] :
                                 \A u \in users : f[u].email = HomeEmail(u)}
    /\ op = "none"
    /\ args = [none |-> TRUE]
    /\ pc = "idle"
    /\ inflight = {}
    /\ calls = <<>>
    /\ responses = <<>>
    /\ settled = "pending"
    /\ result = NoResult
    /\ profiles = <<>>
    /\ idx = 0
    /\ successCount = 0
    /\ errorCount = 0
    /\ errors = <<>>
    /\ invocations = 0
    /\ otherWrites = 0

\* the eight exported actions
Next ==
    \/ changeUserEmail
    \/ sendPasswordReset
    \/ requestReauthentication
    \/ inviteUser
    \/ sendMagicLink
    \/ deleteUser
    \/ updateUserAppMetadata
    \/ syncAllUsersAppMetadata

Spec == Init /\ [][Next]_vars

\* the bulk synchronisation running while other processes write roles
NextSync ==
    \/ syncAllUsersAppMetadata
    \/ OtherWriter

SpecSync == Init /\ [][NextSync]_vars

(* ======================= properties of the actions ====================== *)
Returned == pc = "done" /\ settled = "fulfilled"
Sync == op = "syncAllUsersAppMetadata"
\* responses[i] answers calls[i]: calls[1] is createClient, calls[2] the action's
\* primary call, calls[3] the secondary call (changeUserEmail) or, in the bulk
\* synchronisation, calls[2 + i] the update of the i-th profile read
Answered(i) == i \in DOMAIN responses
ThrewAt(i) == Answered(i) /\ responses[i].kind = "throw"
ErrorAt(i) == Answered(i) /\ responses[i].kind = "error"
OkAt(i) == Answered(i) /\ responses[i].kind = "ok"
UpdateCalls == {i \in DOMAIN calls : i >= 3 /\ Sync}
\* the rows the bulk synchronisation read, its update calls
RowsRead == IF OkAt(2) /\ "data" \in DOMAIN responses[2] THEN responses[2].data ELSE <<>>
IsUpdate(call) == call.api = "auth.admin.updateUserById"
UpdatesIssued == {i \in DOMAIN calls : IsUpdate(calls[i])}

\* the message of each action's catch block
UnexpectedMessage(action) ==
    CASE action = "changeUserEmail" -> "An unexpected error occurred while changing the email"
      [] action = "sendPasswordReset" -> "An unexpected error occurred while sending password reset"
      [] action = "requestReauthentication" ->
            "An unexpected error occurred while sending reauthentication request"
      [] action = "inviteUser" -> "An unexpected error occurred while sending invitation"
      [] action = "sendMagicLink" -> "An unexpected error occurred while sending magic link"
      [] action = "deleteUser" -> "An unexpected error occurred while deleting user"
      [] action = "updateUserAppMetadata" ->
            "An unexpected error occurred while updating user app_metadata"
      [] action = "syncAllUsersAppMetadata" ->
            "An unexpected error occurred while syncing user app_metadata"

\* the message of each action when its primary call reports an error
FailureMessage(action) ==
    CASE action = "changeUserEmail" -> "Failed to change user email"
      [] action = "sendPasswordReset" -> "Failed to send password reset email"
      [] action = "requestReauthentication" -> "Failed to send reauthentication link"
      [] action = "inviteUser" -> "Failed to send invitation"
      [] action = "sendMagicLink" -> "Failed to send magic link"
      [] action = "deleteUser" -> "Failed to delete user account"
      [] action = "updateUserAppMetadata" -> "Failed to update user app_metadata"
      [] action = "syncAllUsersAppMetadata" -> "Failed to fetch profiles"

SyncedMessage(succeeded, failed) ==
    "Synced app_metadata for " \o ToString(succeeded) \o " users. "
        \o ToString(failed) \o " errors."

\* the confirmation of each action
ConfirmationMessage(action) ==
    CASE action = "changeUserEmail" ->
            "Email successfully changed to " \o args.newEmail
                \o ". User will receive a confirmation email."
      [] action = "sendPasswordReset" -> "Password reset link has been sent to " \o args.email
      [] action = "requestReauthentication" ->
            "Reauthentication link has been sent to " \o args.email
      [] action = "inviteUser" -> "Invitation sent successfully to " \o args.email
      [] action = "sendMagicLink" -> "Magic link has been sent to " \o args.email
      [] action = "deleteUser" -> "User account has been successfully deleted"
      [] action = "updateUserAppMetadata" ->
            "User app_metadata successfully updated with role: " \o args.role
      [] action = "syncAllUsersAppMetadata" ->
            LET N == Len(RowsRead)
                S == Cardinality({i \in 1..N : OkAt(2 + i)})
            IN  IF N = 0 THEN "No profiles found to sync" ELSE SyncedMessage(S, N - S)

(* ------------------------- all actions (Spec) --------------------------- *)
\* C1 as stated: whenever an awaited step of an invocation threw (client
\* construction, the primary call or a secondary call), the invocation returns
\* success=false with the action's generic message and the exception text.
C1_EveryThrowReturnsFailure ==
    (pc = "done" /\ \E i \in DOMAIN responses : ThrewAt(i)) =>
        /\ settled = "fulfilled"
        /\ \E i \in DOMAIN responses :
              /\ ThrewAt(i)
              /\ result = Failure(UnexpectedMessage(op), responses[i].message)

\* C1 amended: no invocation rejects; a throw of client construction, of the
\* primary call or of changeUserEmail's profile write ends the invocation with
\* success=false, the generic message and the exception text; a throw of a
\* per-user update of the bulk synchronisation does not fail the invocation.
C1_NeverRejects ==
    /\ pc = "done" => settled = "fulfilled"
    /\ \A i \in DOMAIN responses :
          (ThrewAt(i) /\ i \notin UpdateCalls) =>
              /\ pc = "done"
              /\ i = Len(responses)
              /\ result = Failure(UnexpectedMessage(op), responses[i].message)
    /\ (Returned /\ \E i \in UpdateCalls : ThrewAt(i)) => result.success

C1_Witness ==
    /\ op = "changeUserEmail"
    /\ Returned
    /\ ThrewAt(3)
    /\ result = Failure("An unexpected error occurred while changing the email",
                        "fetch failed")

\* C2: when the primary call of an action reports an error the invocation
\* returns success=false with the action's fixed failure message and the
\* service's error text; every returned failure carries an error text.
C2_ReportedErrorIsReturned ==
    /\ ErrorAt(2) =>
          /\ Returned
          /\ result = Failure(FailureMessage(op), responses[2].message)
    /\ (Returned /\ ~result.success) =>
          /\ "error" \in DOMAIN result
          /\ result.error \in ServiceErrors \cup Exceptions

C2_Witness ==
    /\ op = "deleteUser"
    /\ Returned
    /\ ErrorAt(2)
    /\ result = Failure("Failed to delete user account", "User not found")

\* C3: in changeUserEmail, once the identity provider's email update succeeded
\* the result is success=true without an error field, however the profile
\* write fails.
C3_ProfileFailureNeverSurfaces ==
    (op = "changeUserEmail" /\ pc = "done" /\ OkAt(2)) =>
        /\ settled = "fulfilled"
        /\ result.success
        /\ "error" \notin DOMAIN result

\* C7: when the primary call of the invocation completed without an error
\* and nothing threw, the result is success=true with the action's
\* confirmation and no error field.
C7_NoErrorReturnsSuccess ==
    (pc = "done" /\ OkAt(2) /\ \A i \in DOMAIN responses : ~ThrewAt(i)) =>
        /\ Returned
        /\ result = Success(ConfirmationMessage(op))
        /\ "error" \notin DOMAIN result

C7_Witness ==
    /\ op = "inviteUser"
    /\ Returned
    /\ OkAt(2)
    /\ result = Success("Invitation sent successfully to user1@example.com")

\* C9: every one-time-passcode call of requestReauthentication has the
\* create-user flag false and no step of a requestReauthentication invocation
\* adds an identity; every such call of sendMagicLink has the flag true; but
\* for the flag both are the same request (the email argument, the /dashboard
\* redirect).
OtpCall(email, createUser, env) ==
    [api |-> "auth.signInWithOtp", email |-> email,
     options |-> [shouldCreateUser |-> createUser,
                  emailRedirectTo |-> RedirectUrl(env, "/dashboard")]]
C9_OtpCreateUserFlag ==
    /\ [](\A i \in DOMAIN calls :
            /\ (op = "requestReauthentication" /\ i >= 2) =>
                  \E env \in SiteUrls : calls[i] = OtpCall(args.email, FALSE, env)
            /\ (op = "sendMagicLink" /\ i >= 2) =>
                  \E env \in SiteUrls : calls[i] = OtpCall(args.email, TRUE, env))
    /\ [][(op = "requestReauthentication" /\ op' = op) =>
             DOMAIN identities' \subseteq DOMAIN identities]_vars

C9_Witness ==
    /\ op = "requestReauthentication"
    /\ Returned
    /\ Len(calls) = 2
    /\ ~calls[2].options.shouldCreateUser
    /\ ~EmailTaken(args.email)
    /\ ErrorAt(2)
    /\ FreshIds # {}

(* ---------------- bulk synchronisation (SpecSync) ----------------------- *)
\* C4: when the read returned N >= 1 rows, the invocation ends only after
\* one update call per row, whatever the earlier updates did, and returns
\* success=true, "Synced app_metadata for S users. E errors.", S the number of
\* updates that succeeded, E the number that failed, S + E = N.
C4_EveryProfileAttempted ==
    (Sync /\ pc = "done" /\ Len(RowsRead) >= 1) =>
        LET N == Len(RowsRead)
            S == Cardinality({i \in 1..N : OkAt(2 + i)})
            E == Cardinality({i \in 1..N : ErrorAt(2 + i) \/ ThrewAt(2 + i)})
        IN  /\ Len(calls) = 2 + N
            /\ Len(responses) = 2 + N
            /\ \A i \in 1..N : IsUpdate(calls[2 + i]) /\ calls[2 + i].id = RowsRead[i].id
            /\ S + E = N
            /\ Returned
            /\ result = Success(SyncedMessage(S, E))

C4_Witness ==
    /\ Sync
    /\ Returned
    /\ Len(RowsRead) = 2
    /\ ThrewAt(3)
    /\ OkAt(4)
    /\ result = Success("Synced app_metadata for 1 users. 1 errors.")

\* C5: when the read of the profiles reports an error the invocation returns
\* success=false, "Failed to fetch profiles" and the read error, no update call
\* is issued and no step of the invocation changes the identities.
C5_ReadErrorIsFatal ==
    /\ []((Sync /\ ErrorAt(2)) =>
            /\ Returned
            /\ result = Failure("Failed to fetch profiles", responses[2].message)
            /\ UpdatesIssued = {})
    /\ [][(Sync /\ op' = op /\ otherWrites' = otherWrites /\ UpdatesIssued = {}) =>
             identities' = identities]_vars

C5_Witness ==
    /\ Sync
    /\ Returned
    /\ ErrorAt(2)
    /\ DOMAIN profileTable # {}
    /\ \E u \in DOMAIN profileTable :
          u \in DOMAIN identities /\ identities[u].role # profileTable[u].role

\* C6: after an invocation that read the profiles and in which every update
\* succeeded, with no other write during the run, every profile row has its
\* identity's app_metadata role equal to its role; no step of the invocation
\* writes the profiles table.
C6_SyncRestoresRoles ==
    /\ []((Sync /\ pc = "done" /\ Len(RowsRead) >= 1 /\ otherWrites = 0
              /\ \A i \in DOMAIN responses : OkAt(i)) =>
            \A u \in DOMAIN profileTable :
                u \in DOMAIN identities /\ identities[u].role = profileTable[u].role)
    /\ [][(Sync /\ op' = op /\ otherWrites' = otherWrites) =>
             profileTable' = profileTable]_vars

C6_Witness ==
    /\ Sync
    /\ Returned
    /\ Len(RowsRead) = 2
    /\ otherWrites = 0
    /\ \A i \in DOMAIN responses : OkAt(i)
    /\ \E u \in DOMAIN profileTable : profileTable[u].role = "admin"

\* C8: when the read succeeds with no rows (an empty list or no data) the
\* invocation returns success=true, "No profiles found to sync", no error
\* field, and issues no update call.
C8_NoProfiles ==
    (Sync /\ OkAt(2) /\ Len(RowsRead) = 0) =>
        /\ Returned
        /\ result = Success("No profiles found to sync")
        /\ "error" \notin DOMAIN result
        /\ UpdatesIssued = {}

C8_Witness ==
    /\ Sync
    /\ Returned
    /\ OkAt(2)
    /\ "data" \in DOMAIN responses[2]
    /\ Len(responses[2].data) = 0
    /\ result.success

\* C10: the updates of one invocation are sequential: at most one update is
\* in flight, a call is issued only after every earlier call was answered, and
\* the i-th update issued is the update of the i-th row read.
C10_UpdatesSequential ==
    Sync =>
        /\ Cardinality({call \in inflight : IsUpdate(call)}) <= 1
        /\ Len(calls) <= Len(responses) + 1
        /\ \A i \in UpdatesIssued :
              /\ i >= 3
              /\ i - 2 <= Len(RowsRead)
              /\ calls[i].id = RowsRead[i - 2].id

C10_Witness ==
    /\ Sync
    /\ pc = "updateUserById"
    /\ Len(RowsRead) = 2
    /\ Len(calls) = 4
    /\ Len(responses) = 3
    /\ inflight = {calls[4]}
====
